---------------------------- MODULE Spec2Model ----------------------------
(***************************************************************************)
(* State-machine model of the viper profiling support of z3                *)
(* (src/util/profiling.h, src/util/profiling.cpp): the nanosecond          *)
(* stopwatch, the scope-transition and backtracking hooks, the matching    *)
(* loop opcode histogram and the pass that correlates high-time nodes      *)
(* with backtracking nodes.                                                *)
(*                                                                         *)
(* Durations and clock readings are integers counting nanoseconds          *)
(* (std::chrono::nanoseconds).  A value that get_seconds() returns is      *)
(* kept as the rational  ns / NsPerSecond.                                 *)
(***************************************************************************)
EXTENDS Integers, Sequences, FiniteSets, TLC

(***************************************************************************)
(* Bounds of the model.                                                    *)
(***************************************************************************)
\* the steady clock is followed for MaxClock quanta
MaxClock == 4
\* the host calls the scope-transition/backtracking hooks at most MaxHooks times
MaxHooks == 3
\* each counter of the matching loop is followed up to MaxLoopItrs
MaxLoopItrs == 1
\* the histogram is followed up to MaxTotalItrs iterations of the matching
\* loop and MaxOpcodeCount executions of an opcode
MaxTotalItrs == 101
MaxOpcodeCount == 2
\* the correlation pass is run on the nodes 0 .. MaxNode
MaxNode == 4

(***************************************************************************)
(* Program constants.                                                      *)
(***************************************************************************)
\* get_seconds(): get_nanoseconds() / 1e9
NsPerSecond == 1000000000
\* high_time_threshold = 0.005, kept as ThresholdNum / ThresholdDen
ThresholdNum == 5
ThresholdDen == 1000
\* mam_case_counters = std::vector<long unsigned>(38)
NumOpcodes == 38

\* high_time_threshold as a rational number of seconds
high_time_threshold == [num |-> ThresholdNum, den |-> ThresholdDen]

\* The clock of the model advances in steps of half the threshold, so that a
\* node can take less than, exactly, and more than high_time_threshold.
Quantum == (ThresholdNum * (NsPerSecond \div ThresholdDen)) \div 2
Horizon == MaxClock * Quantum

(***************************************************************************)
(* Rational arithmetic for the double values the code compares.  For the   *)
(* magnitudes of the model (below 2^31) the IEEE double quotient n/d is    *)
(* the correctly rounded value of the rational, rounding is monotone and   *)
(* the boundary cases (0.005 and 1%) round to the compared literal, so a   *)
(* comparison of doubles agrees with the comparison of the rationals.      *)
(***************************************************************************)
RECURSIVE GCD(_, _)
GCD(a, b) == IF b = 0 THEN a ELSE GCD(b, a % b)

\* p >= q for rationals with positive denominators
RatGE(p, q) ==
    LET g == GCD(p.den, q.den)
    IN  p.num * (q.den \div g) >= q.num * (p.den \div g)

\* p > q for rationals with positive denominators
RatGT(p, q) ==
    LET g == GCD(p.den, q.den)
    IN  p.num * (q.den \div g) > q.num * (p.den \div g)

(***************************************************************************)
(* nanostopwatch (profiling.h).  t is the value now() returns in the call. *)
(***************************************************************************)
\* a default-constructed stopwatch
nanostopwatch ==
    [m_start |-> 0, m_elapsed |-> 0, m_last_update |-> 0, m_running |-> FALSE]

\* a reset() that zeroes the window only
reset_keeps_total(s) == [s EXCEPT !.m_last_update = 0]

\* a reset() that zeroes the total only
reset_keeps_window(s) == [s EXCEPT !.m_elapsed = 0]

reset(s) == [s EXCEPT !.m_elapsed = 0, !.m_last_update = 0]

\* a start() without the m_running guard
start_unguarded(s, t) == [s EXCEPT !.m_start = t, !.m_running = TRUE]

start(s, t) ==
    IF ~s.m_running
    THEN [s EXCEPT !.m_start = t, !.m_running = TRUE]
    ELSE s

\* a stop() that overwrites the accumulated time instead of adding to it
stop_overwrite(s, t) ==
    IF s.m_running
    THEN [s EXCEPT !.m_elapsed = t - s.m_start,
                   !.m_last_update = t - s.m_start,
                   !.m_running = FALSE]
    ELSE s

stop(s, t) ==
    IF s.m_running
    THEN LET change == t - s.m_start
         IN  [s EXCEPT !.m_elapsed = @ + change,
                       !.m_last_update = @ + change,
                       !.m_running = FALSE]
    ELSE s

\* The stopwatch after get_nanoseconds(): stop() reads the clock at t1 and
\* start() reads it again at t2 >= t1.  The value returned is m_elapsed.
get_nanoseconds(s, t1, t2) ==
    IF s.m_running THEN start(stop(s, t1), t2) ELSE s

\* get_nanoseconds() / 1e9
get_seconds(s, t1, t2) ==
    [num |-> get_nanoseconds(s, t1, t2).m_elapsed, den |-> NsPerSecond]

\* The stopwatch after get_last_update_nanoseconds(); the value returned is
\* m_last_update.
get_last_update_nanoseconds(s, t1, t2) ==
    IF s.m_running THEN start(stop(s, t1), t2) ELSE s

reset_last_update(s) == [s EXCEPT !.m_last_update = 0]

(***************************************************************************)
(* State.                                                                  *)
(***************************************************************************)
VARIABLES
    now,                          \* the reading of std::chrono::steady_clock
    total_propagation_stopwatch,  \* public stopwatch the host starts and stops
    \* history of the calls made on total_propagation_stopwatch
    lastOp,        \* the last call made on it
    prevOp,        \* the call before that
    ret,           \* the value the last read returned
    readAt,        \* clock reading of the last read
    closedSum,     \* sum of the closed [start, stop) intervals of the caller
                   \* since the last reset()
    openStart,     \* clock reading of the last effective start(), or of a
                   \* reset() made since
    lost,          \* clock advance inside reads of the running stopwatch
    windowClean,   \* reset_last_update() was called and no start()/stop() since
    \* members of class profiling
    backtracking_nodes,      \* node numbers at which backtracking happened
    high_time_nodes_total,   \* <<node, seconds>> of every high-time node
    mam_high_time_nodes,     \* <<node, seconds>> of the high-time nodes of the mam
    currentNode,
    mam_total_loop_itrs,
    entered_mam_loop,
    node_total_stopwatch,
    mam_stopwatch,
    mam_high_time_count,
    high_time_count_total,
    mam_case_counters,       \* opcode index -> count
    file_stream,             \* "open" after construction, "null" once deleted
    nHooks,                  \* calls of scope_update/backtracking_update so far
    \* collect_statistics()
    pc,                      \* position of the host in the profiling code
    st,                      \* the values handed to statistics::update
    pass                     \* the stream written by collect_statistics() and
                             \* the locals of high_time_backtracking_distance()

timerVars == <<total_propagation_stopwatch, lastOp, prevOp, ret, readAt,
               closedSum, openStart, lost, windowClean>>

seqVars == <<backtracking_nodes, high_time_nodes_total, mam_high_time_nodes>>

histVars == <<mam_total_loop_itrs, mam_case_counters>>

nodeVars == <<currentNode, entered_mam_loop, node_total_stopwatch, mam_stopwatch,
              mam_high_time_count, high_time_count_total, file_stream, nHooks>>

profVars == <<seqVars, histVars, nodeVars>>

passVars == <<pc, st, pass>>

vars == <<now, timerVars, profVars, passVars>>

\* what now() may return after `t`, the clock advancing during a call
Later(t) == {u \in {t, t + Quantum} : u <= Horizon}

\* the host has not touched total_propagation_stopwatch
TimerFresh ==
    /\ total_propagation_stopwatch = nanostopwatch
    /\ lastOp = "none"
    /\ prevOp = "none"
    /\ ret = 0
    /\ readAt = 0
    /\ closedSum = 0
    /\ openStart = 0
    /\ lost = 0
    /\ windowClean = FALSE

\* std::vector<long unsigned>(38), one counter per entry of opcode_names
Opcodes == 0 .. (NumOpcodes - 1)

\* the opcodes the host is seen to count: the first and the last of the table
HostOpcodes == {0, NumOpcodes - 1}

\* the members of a profiling object right after profiling::profiling()
ProfFresh ==
    /\ backtracking_nodes = <<>>
    /\ high_time_nodes_total = <<>>
    /\ mam_high_time_nodes = <<>>
    /\ currentNode = 0
    /\ mam_total_loop_itrs = 0
    /\ entered_mam_loop = FALSE
    /\ node_total_stopwatch = nanostopwatch
    /\ mam_stopwatch = nanostopwatch
    /\ mam_high_time_count = 0
    /\ high_time_count_total = 0
    /\ mam_case_counters = [i \in Opcodes |-> 0]
    /\ file_stream = "open"
    /\ nHooks = 0

\* the stream and the locals of high_time_backtracking_distance() outside a
\* call of collect_statistics()
NoPass ==
    [pc |-> "idle", os |-> <<>>,
     prev_backtracking_node |-> 0, curr_backtracking_node |-> 0,
     back_index |-> 0, mam_index |-> 0, mam_curr_node |-> 0, h_index |-> 0,
     min_dist_counts |-> <<>>, readsB |-> {}, readsM |-> {}]

\* no call of collect_statistics() is in progress
PassFresh ==
    /\ pc = "idle"
    /\ st = <<>>
    /\ pass = NoPass

(***************************************************************************)
(* The steady clock advances between calls.                                *)
(***************************************************************************)
Tick ==
    /\ now + Quantum <= Horizon
    /\ now' = now + Quantum
    /\ pc = "idle"
    /\ UNCHANGED <<timerVars, profVars, passVars>>

(***************************************************************************)
(* Calls of the host on total_propagation_stopwatch.                       *)
(***************************************************************************)
SwStart ==
    /\ total_propagation_stopwatch' = start(total_propagation_stopwatch, now)
    /\ lastOp' = "start"
    /\ prevOp' = lastOp
    /\ openStart' = IF total_propagation_stopwatch.m_running THEN openStart ELSE now
    /\ windowClean' = FALSE
    /\ UNCHANGED <<now, ret, readAt, closedSum, lost, profVars, passVars>>

SwStop ==
    /\ total_propagation_stopwatch' = stop(total_propagation_stopwatch, now)
    /\ lastOp' = "stop"
    /\ prevOp' = lastOp
    /\ closedSum' = IF total_propagation_stopwatch.m_running
                    THEN closedSum + (now - openStart)
                    ELSE closedSum
    /\ windowClean' = FALSE
    /\ UNCHANGED <<now, ret, readAt, openStart, lost, profVars, passVars>>

SwReadTotal ==
    \E t2 \in Later(now) :
        /\ total_propagation_stopwatch' =
               get_nanoseconds(total_propagation_stopwatch, now, t2)
        /\ ret' = total_propagation_stopwatch'.m_elapsed
        /\ readAt' = now
        /\ now' = IF total_propagation_stopwatch.m_running THEN t2 ELSE now
        /\ lost' = lost + (now' - now)
        /\ lastOp' = "read_total"
        /\ prevOp' = lastOp
        /\ UNCHANGED <<closedSum, openStart, windowClean, profVars, passVars>>

SwReadWindow ==
    \E t2 \in Later(now) :
        /\ total_propagation_stopwatch' =
               get_last_update_nanoseconds(total_propagation_stopwatch, now, t2)
        /\ ret' = total_propagation_stopwatch'.m_last_update
        /\ readAt' = now
        /\ now' = IF total_propagation_stopwatch.m_running THEN t2 ELSE now
        /\ lost' = lost + (now' - now)
        /\ lastOp' = "read_window"
        /\ prevOp' = lastOp
        /\ UNCHANGED <<closedSum, openStart, windowClean, profVars, passVars>>

SwResetWindow ==
    /\ total_propagation_stopwatch' = reset_last_update(total_propagation_stopwatch)
    /\ lastOp' = "reset_window"
    /\ prevOp' = lastOp
    /\ windowClean' = TRUE
    /\ UNCHANGED <<now, ret, readAt, closedSum, openStart, lost, profVars,
                   passVars>>

NextTimer ==
    \/ Tick
    \/ SwStart
    \/ SwStop
    \/ SwReadTotal
    \/ SwReadWindow
    \/ SwResetWindow

InitTimer ==
    /\ now \in {0, Quantum}
    /\ TimerFresh
    /\ ProfFresh
    /\ PassFresh

SpecTimer == InitTimer /\ [][NextTimer]_vars

(***************************************************************************)
(* Claims about the stopwatch, checked under SpecTimer.                    *)
(***************************************************************************)
\* the value read_total() would return at the current clock reading
ReadTotalValue ==
    get_nanoseconds(total_propagation_stopwatch, now, now).m_elapsed

\* C1 (timer additivity): with the clock advancing between calls only, the
\* value a read_total() returns is the sum of the closed [start, stop)
\* intervals plus, if the stopwatch is running, the open interval from the
\* last effective start() up to the read.
C1_TimerAdditivity ==
    (lastOp = "read_total" /\ lost = 0) =>
        ret = closedSum +
              (IF total_propagation_stopwatch.m_running
               THEN readAt - openStart ELSE 0)

\* a read of the running stopwatch after one closed interval and a restart,
\* each interval of positive length
C1_Witness ==
    /\ lastOp = "read_total"
    /\ lost = 0
    /\ total_propagation_stopwatch.m_running
    /\ closedSum > 0
    /\ readAt > openStart
    /\ ret = closedSum + (readAt - openStart)

\* C2 (idempotence): a start() that follows a start(), and a stop() that
\* follows a stop(), leaves running flag, start instant, total and window
\* as they are; start() while running does not move the start instant and
\* stop() while not running adds nothing to total or window.
C2_Idempotence ==
    [][ /\ ( \/ (lastOp = "start" /\ lastOp' = "start")
             \/ (lastOp = "stop" /\ lastOp' = "stop") )
            => UNCHANGED total_propagation_stopwatch
        /\ (lastOp' = "start" /\ prevOp' = lastOp
               /\ total_propagation_stopwatch.m_running)
            => total_propagation_stopwatch'.m_start =
                   total_propagation_stopwatch.m_start
        /\ (lastOp' = "stop" /\ prevOp' = lastOp
               /\ ~total_propagation_stopwatch.m_running)
            => /\ total_propagation_stopwatch'.m_elapsed =
                      total_propagation_stopwatch.m_elapsed
               /\ total_propagation_stopwatch'.m_last_update =
                      total_propagation_stopwatch.m_last_update
      ]_vars

\* start() was called twice in a row on a stopwatch that an earlier interval
\* has already charged, the clock having advanced since the first start()
C2_Witness ==
    /\ lastOp = "start"
    /\ prevOp = "start"
    /\ total_propagation_stopwatch.m_running
    /\ total_propagation_stopwatch.m_elapsed > 0
    /\ now > total_propagation_stopwatch.m_start

\* C3 (window independence), as claimed: reset_window() does not change what
\* read_total() returns, and after reset_window() every read_window()
\* returns zero until the caller's next start() or stop().
C3_WindowIndependence ==
    /\ [][ (lastOp' = "reset_window" /\ now' = now)
             => ReadTotalValue' = ReadTotalValue ]_vars
    /\ []( (windowClean /\ lastOp = "read_window") => ret = 0 )

\* C14 (no observable pause), as claimed: a read leaves a running stopwatch
\* running, and once the caller has stopped it the total is the length of
\* the caller's [start, stop) intervals, whatever reads were made inside an
\* interval and however the clock advanced during a read.
C14_NoPause ==
    /\ [][ (lastOp' \in {"read_total", "read_window"} /\ prevOp' = lastOp)
              => total_propagation_stopwatch'.m_running =
                     total_propagation_stopwatch.m_running ]_vars
    /\ [](lastOp = "stop" =>
              total_propagation_stopwatch.m_elapsed = closedSum)

(***************************************************************************)
(* SpecReset: the stopwatch under every order of all its calls, reset()    *)
(* included.  For the caller the time before a reset() is gone: the        *)
(* history keeps what was closed since the reset, and of an interval open  *)
(* at the reset only the part after it.                                    *)
(***************************************************************************)
SwReset ==
    /\ total_propagation_stopwatch' = reset(total_propagation_stopwatch)
    /\ lastOp' = "reset_total"
    /\ prevOp' = lastOp
    /\ closedSum' = 0
    /\ openStart' = now
    /\ windowClean' = TRUE
    /\ UNCHANGED <<now, ret, readAt, lost, profVars, passVars>>

InitReset ==
    /\ now \in {0, Quantum}
    /\ TimerFresh
    /\ ProfFresh
    /\ PassFresh

NextReset ==
    \/ Tick
    \/ SwStart
    \/ SwStop
    \/ SwReadTotal
    \/ SwReadWindow
    \/ SwResetWindow
    \/ SwReset

SpecReset == InitReset /\ [][NextReset]_vars

(***************************************************************************)
(* Claims about reset(), checked under SpecReset.                          *)
(***************************************************************************)
\* the time the caller has measured since the last reset(), up to the last
\* read
SinceReset ==
    closedSum +
    (IF total_propagation_stopwatch.m_running THEN readAt - openStart ELSE 0)

\* C18 (reset discards), as claimed: with the clock advancing between calls
\* only, a read_total() returns the time measured since the last reset()
\* and a read_window() no more than that, whether the stopwatch was stopped
\* or running when it was reset.
C18_ResetDiscards ==
    /\ (lastOp = "read_total" /\ lost = 0) => ret = SinceReset
    /\ (lastOp = "read_window" /\ lost = 0) => ret <= SinceReset

\* C19 (window never exceeds total): m_last_update is at most m_elapsed and
\* neither is negative.
C19_WindowWithinTotal ==
    /\ 0 <= total_propagation_stopwatch.m_last_update
    /\ total_propagation_stopwatch.m_last_update
           <= total_propagation_stopwatch.m_elapsed

\* the stopwatch was reset while running, stopped, its window reset, and it
\* ran once more: the window is positive and smaller than the total, which
\* holds more than the caller has measured since the reset()
C19_Witness ==
    /\ lastOp = "stop"
    /\ total_propagation_stopwatch.m_last_update > 0
    /\ total_propagation_stopwatch.m_last_update
           < total_propagation_stopwatch.m_elapsed
    /\ total_propagation_stopwatch.m_elapsed > closedSum

(***************************************************************************)
(* class profiling (profiling.cpp): the calls of the host.  The host is    *)
(* single threaded: a call is made only while no other call is in          *)
(* progress (pc = "idle").                                                 *)
(***************************************************************************)
\* an add_backtracking_node() handed the node number after its increment
add_backtracking_node_after_increment(nodes, node) == Append(nodes, node + 1)

\* add_backtracking_node(node)
add_backtracking_node(nodes, node) == Append(nodes, node)

\* add_high_time_node_total(node, seconds) / add_mam_high_time_node(node, seconds)
add_high_time_node(nodes, node, seconds) == Append(nodes, <<node, seconds>>)

\* a test of the mam that does not look at entered_mam_loop
mam_high_ignores_entered(high, entered, currMamSeconds) ==
    /\ high
    /\ RatGE(currMamSeconds, high_time_threshold)

\* a test of the mam that is not nested in the test of the total time
mam_high_not_nested(high, entered, currMamSeconds) ==
    /\ entered
    /\ RatGE(currMamSeconds, high_time_threshold)

\* the conditions under which scope_update() reaches add_mam_high_time_node():
\* `high` is the outer test  currSeconds >= high_time_threshold
mam_high(high, entered, currMamSeconds) ==
    /\ high
    /\ entered
    /\ RatGE(currMamSeconds, high_time_threshold)

\* The body of scope_update().  The clock is read at `now` by
\* node_total_stopwatch.stop(), at t2 and t3 by the stop and restart inside
\* mam_stopwatch.get_seconds() and at t4 by node_total_stopwatch.start().
scope_update(t2, t3, t4) ==
    LET stopped == stop(node_total_stopwatch, now)
        currSeconds == get_seconds(stopped, now, now)
        currMamSeconds == get_seconds(mam_stopwatch, t2, t3)
        mamRead == get_nanoseconds(mam_stopwatch, t2, t3)
        high == RatGE(currSeconds, high_time_threshold)
        mamHigh == mam_high(high, entered_mam_loop, currMamSeconds)
    IN  /\ high_time_count_total' =
               IF high THEN high_time_count_total + 1 ELSE high_time_count_total
        /\ high_time_nodes_total' =
               IF high
               THEN add_high_time_node(high_time_nodes_total, currentNode, currSeconds)
               ELSE high_time_nodes_total
        /\ mam_high_time_count' =
               IF mamHigh THEN mam_high_time_count + 1 ELSE mam_high_time_count
        /\ mam_high_time_nodes' =
               IF mamHigh
               THEN add_high_time_node(mam_high_time_nodes, currentNode, currMamSeconds)
               ELSE mam_high_time_nodes
        /\ currentNode' = currentNode + 1
        /\ entered_mam_loop' = FALSE
        /\ mam_stopwatch' = reset(mamRead)
        /\ node_total_stopwatch' = start(reset(stopped), t4)
        /\ now' = t4

\* a backtracking_update() that records the node but does not delegate to
\* scope_update()
BacktrackingUpdate_no_scope_update ==
    /\ pc = "idle"
    /\ nHooks < MaxHooks
    /\ nHooks' = nHooks + 1
    /\ backtracking_nodes' = add_backtracking_node(backtracking_nodes, currentNode)
    /\ UNCHANGED <<now, high_time_nodes_total, mam_high_time_nodes, histVars,
                   currentNode, entered_mam_loop, node_total_stopwatch,
                   mam_stopwatch, mam_high_time_count, high_time_count_total,
                   file_stream, timerVars, passVars>>

\* scope_update(scope); the scope level is not used
ScopeUpdate ==
    /\ pc = "idle"
    /\ nHooks < MaxHooks
    /\ nHooks' = nHooks + 1
    /\ \E t2 \in Later(now) : \E t3 \in Later(t2) : \E t4 \in Later(t3) :
           scope_update(t2, t3, t4)
    /\ UNCHANGED <<backtracking_nodes, histVars, file_stream, timerVars, passVars>>

\* backtracking_update(num_scopes, new_lvl); neither argument is used
BacktrackingUpdate ==
    /\ pc = "idle"
    /\ nHooks < MaxHooks
    /\ nHooks' = nHooks + 1
    /\ backtracking_nodes' = add_backtracking_node(backtracking_nodes, currentNode)
    /\ \E t2 \in Later(now) : \E t3 \in Later(t2) : \E t4 \in Later(t3) :
           scope_update(t2, t3, t4)
    /\ UNCHANGED <<histVars, file_stream, timerVars, passVars>>

SetupMam ==
    /\ pc = "idle"
    /\ entered_mam_loop' = TRUE
    /\ mam_stopwatch' = start(mam_stopwatch, now)
    /\ UNCHANGED <<now, seqVars, histVars, currentNode, node_total_stopwatch,
                   mam_high_time_count, high_time_count_total, file_stream,
                   nHooks, timerVars, passVars>>

ExitMam ==
    /\ pc = "idle"
    /\ mam_stopwatch' = stop(mam_stopwatch, now)
    /\ UNCHANGED <<now, seqVars, histVars, currentNode, entered_mam_loop,
                   node_total_stopwatch, mam_high_time_count,
                   high_time_count_total, file_stream, nHooks, timerVars,
                   passVars>>

\* mam_loop_update(), followed up to `cap` iterations
MamLoopUpdate(cap) ==
    /\ pc = "idle"
    /\ mam_total_loop_itrs < cap
    /\ mam_total_loop_itrs' = mam_total_loop_itrs + 1
    /\ UNCHANGED <<now, seqVars, mam_case_counters, nodeVars, timerVars, passVars>>

\* a set_mam_loop_counters() that also counts an iteration of the loop
SetMamLoopCounters_counts_iteration(cap) ==
    /\ pc = "idle"
    /\ \E enumCase \in HostOpcodes :
           /\ mam_case_counters[enumCase] < cap
           /\ mam_case_counters' =
                  [mam_case_counters EXCEPT ![enumCase] = @ + 1]
    /\ mam_total_loop_itrs' = mam_total_loop_itrs + 1
    /\ UNCHANGED <<now, seqVars, nodeVars, timerVars, passVars>>

\* set_mam_loop_counters(enumCase), the host passing an opcode of the mam
SetMamLoopCounters(cap) ==
    /\ pc = "idle"
    /\ \E enumCase \in HostOpcodes :
           /\ mam_case_counters[enumCase] < cap
           /\ mam_case_counters' =
                  [mam_case_counters EXCEPT ![enumCase] = @ + 1]
    /\ UNCHANGED <<now, seqVars, mam_total_loop_itrs, nodeVars, timerVars, passVars>>

\* ~profiling(): the stream is closed and deleted; nothing else is written
Destroy ==
    /\ pc = "idle"
    /\ pc' = "destroyed"
    /\ file_stream' = "null"
    /\ UNCHANGED <<now, seqVars, histVars, currentNode, entered_mam_loop,
                   node_total_stopwatch, mam_stopwatch, mam_high_time_count,
                   high_time_count_total, nHooks, timerVars, st, pass>>

(***************************************************************************)
(* mam_loop_output(): the lines written for the matching loop.             *)
(***************************************************************************)
\* (count / total) * 100.0
percent(count, total) == [num |-> count * 100, den |-> total]

\* an opcode line is also written at exactly 1%
opcode_shown_from_one_percent(count, total) ==
    /\ total > 0
    /\ RatGE(percent(count, total), [num |-> 1, den |-> 1])

\* the two nested conditions under which the line of an opcode is written
opcode_shown(count, total) ==
    /\ total > 0
    /\ RatGT(percent(count, total), [num |-> 1, den |-> 1])

RECURSIVE opcode_lines(_, _, _)
opcode_lines(i, total, counters) ==
    IF i = NumOpcodes
    THEN <<>>
    ELSE (IF opcode_shown(counters[i], total)
          THEN <<[kind |-> "opcode", opcode |-> i, count |-> counters[i],
                  percent |-> percent(counters[i], total)]>>
          ELSE <<>>)
         \o opcode_lines(i + 1, total, counters)

mam_loop_output(total, counters) ==
    <<[kind |-> "mam loop iterations", count |-> total]>>
    \o opcode_lines(0, total, counters)
    \o <<[kind |-> "blank"]>>

(***************************************************************************)
(* high_time_backtracking_distance().  p is the record of the stream and   *)
(* the locals; every step gives the set of records the step can leave.     *)
(* Indices are those of the code (from 0).  A read of a vector beyond its  *)
(* size is undefined: it either faults (the bounds assertion of a checked  *)
(* build) or yields whatever the memory holds.                             *)
(***************************************************************************)
\* outcome of a read that faults
Fault == 0 - 1
FaultTime == [num |-> 0 - 1, den |-> 1]

\* what an unchecked read beyond the end of backtracking_nodes may yield
Garbage == (0 .. (currentNode + 1)) \cup {2147483647}

\* backtracking_nodes[i]
ReadB(i) ==
    IF i >= 0 /\ i < Len(backtracking_nodes)
    THEN {backtracking_nodes[i + 1]}
    ELSE Garbage \cup {Fault}

\* std::get<1>(mam_high_time_nodes[i])
ReadMamTime(i) ==
    IF i >= 0 /\ i < Len(mam_high_time_nodes)
    THEN {mam_high_time_nodes[i + 1][2]}
    ELSE {[num |-> 0, den |-> NsPerSecond], FaultTime}

\* a - b in unsigned 32-bit arithmetic, as the digits <<hi, lo>> in base 2^16
\* (for operands that differ by less than 2^16)
U32Sub(a, b) ==
    IF a >= b
    THEN [hi |-> 0, lo |-> a - b]
    ELSE [hi |-> 65535, lo |-> 65536 + (a - b)]

Abs(x) == IF x < 0 THEN 0 - x ELSE x

\* a pass that does not test for an empty backtracking_nodes
hbd_never_returns_early(B) == FALSE

\* if (backtracking_nodes.empty()) return;
hbd_returns_early(B) == Len(B) = 0

\* the lines of the edge case, one per node of mam_high_time_nodes
edge_case_lines(prev) ==
    [i \in 1 .. Len(mam_high_time_nodes) |->
        [kind |-> "edge", node |-> mam_high_time_nodes[i][1],
         dist |-> U32Sub(mam_high_time_nodes[i][1], prev),
         time |-> mam_high_time_nodes[i][2]]]

\* from the entry of the function to the head of the range-for
hbd_entry(p) ==
    IF hbd_returns_early(backtracking_nodes)
    THEN {[p EXCEPT !.pc = "done"]}
    ELSE LET header == [kind |-> "header",
                        backtracking_nodes |-> Len(backtracking_nodes),
                        mam_high_time_nodes |-> Len(mam_high_time_nodes),
                        high_time_nodes_total |-> high_time_count_total,
                        threshold |-> high_time_threshold]
         IN  { IF prev = Fault
               THEN [p EXCEPT !.pc = "crashed",
                              !.os = @ \o <<header>>,
                              !.readsB = @ \cup {0}]
               ELSE LET written ==
                            p.os \o <<header>> \o
                            (IF Len(backtracking_nodes) = 1
                             THEN edge_case_lines(prev) ELSE <<>>)
                    IN  IF curr = Fault
                        THEN [p EXCEPT !.pc = "crashed",
                                       !.os = written,
                                       !.prev_backtracking_node = prev,
                                       !.readsB = @ \cup {0, 1}]
                        ELSE [p EXCEPT !.pc = "for",
                                       !.os = written,
                                       !.prev_backtracking_node = prev,
                                       !.curr_backtracking_node = curr,
                                       !.back_index = 2,
                                       !.mam_index = 0,
                                       !.mam_curr_node = 0,
                                       !.h_index = 0,
                                       !.readsB = @ \cup {0, 1}]
               : prev \in ReadB(0), curr \in ReadB(1) }

\* the set of <<distance, count>> written after "min_dist counts:"; the order
\* of the lines is by descending count, equal counts in the order std::sort
\* leaves them
min_dist_lines(counts) ==
    <<[kind |-> "min_dist counts",
       counts |-> {<<d, counts[d]>> : d \in DOMAIN counts}]>>

\* the head of the range-for over high_time_nodes_total
hbd_for(p) ==
    IF p.h_index < Len(high_time_nodes_total)
    THEN {[p EXCEPT !.pc = "mam_scan"]}
    ELSE {[p EXCEPT !.pc = "done",
                    !.os = @ \o min_dist_lines(p.min_dist_counts)]}

\* the node and the time of the element the range-for is at
high_time_node(p) == high_time_nodes_total[p.h_index + 1][1]
total_time(p) == high_time_nodes_total[p.h_index + 1][2]

\* a first while loop that also steps past a node equal to high_time_node
hbd_mam_scan_steps_past(p) ==
    IF /\ p.mam_index < Len(mam_high_time_nodes)
       /\ p.mam_curr_node <= high_time_node(p)
    THEN {[p EXCEPT !.mam_curr_node = mam_high_time_nodes[p.mam_index + 1][1],
                    !.mam_index = @ + 1,
                    !.readsM = @ \cup {p.mam_index}]}
    ELSE {[p EXCEPT !.pc = "back_scan"]}

\* one test of the first while loop, and its body
hbd_mam_scan(p) ==
    IF /\ p.mam_index < Len(mam_high_time_nodes)
       /\ p.mam_curr_node < high_time_node(p)
    THEN {[p EXCEPT !.mam_curr_node = mam_high_time_nodes[p.mam_index + 1][1],
                    !.mam_index = @ + 1,
                    !.readsM = @ \cup {p.mam_index}]}
    ELSE {[p EXCEPT !.pc = "back_scan"]}

\* a loop body that fetches the next node but forgets the previous one
back_scan_keeps_prev(p, next) ==
    [p EXCEPT !.curr_backtracking_node = next,
              !.back_index = @ + 1,
              !.readsB = @ \cup {p.back_index}]

\* the body of the second while loop, `next` being backtracking_nodes[back_index]
back_scan_body(p, next) ==
    [p EXCEPT !.prev_backtracking_node = p.curr_backtracking_node,
              !.curr_backtracking_node = next,
              !.back_index = @ + 1,
              !.readsB = @ \cup {p.back_index}]

\* one test of the second while loop, and its body
hbd_back_scan(p) ==
    IF /\ p.curr_backtracking_node < high_time_node(p)
       /\ p.back_index < Len(backtracking_nodes)
    THEN {IF next = Fault THEN [p EXCEPT !.pc = "crashed"]
                          ELSE back_scan_body(p, next)
          : next \in ReadB(p.back_index)}
    ELSE {[p EXCEPT !.pc = "report"]}

\* a choice that prefers the predecessor when the two are equally far
min_dist_prefers_back(back_dist, front_dist) ==
    IF Abs(back_dist) <= Abs(front_dist) THEN back_dist ELSE front_dist

\* std::abs(back_dist) < std::abs(front_dist) ? back_dist : front_dist
min_dist(back_dist, front_dist) ==
    IF Abs(back_dist) < Abs(front_dist) THEN back_dist ELSE front_dist

\* min_dist_counts[d]++
count_dist(counts, d) ==
    IF d \in DOMAIN counts
    THEN [counts EXCEPT ![d] = @ + 1]
    ELSE [e \in DOMAIN counts \cup {d} |-> IF e = d THEN 1 ELSE counts[e]]

\* the distances, the line of the node and the count of its distance
hbd_report(p) ==
    LET h == high_time_node(p)
        back_dist == h - p.prev_backtracking_node
        front_dist == h - p.curr_backtracking_node
        d == min_dist(back_dist, front_dist)
        line(has_mam, mam_time) ==
            [kind |-> "node", node |-> h, dist |-> d, time |-> total_time(p),
             has_mam |-> has_mam, mam_time |-> mam_time,
             back_dist |-> back_dist, front_dist |-> front_dist]
    IN  IF p.mam_curr_node = h
        THEN { IF mam_time = FaultTime
               THEN [p EXCEPT !.pc = "crashed",
                              !.readsM = @ \cup {p.mam_index - 1}]
               ELSE [p EXCEPT !.pc = "for",
                              !.os = Append(@, line(TRUE, mam_time)),
                              !.min_dist_counts = count_dist(@, d),
                              !.h_index = @ + 1,
                              !.readsM = @ \cup {p.mam_index - 1}]
               : mam_time \in ReadMamTime(p.mam_index - 1) }
        ELSE {[p EXCEPT !.pc = "for",
                        !.os = Append(@, line(FALSE, FaultTime)),
                        !.min_dist_counts = count_dist(@, d),
                        !.h_index = @ + 1]}

\* one step of the pass from position p.pc
hbd_step(p) ==
    CASE p.pc = "entry" -> hbd_entry(p)
      [] p.pc = "for" -> hbd_for(p)
      [] p.pc = "mam_scan" -> hbd_mam_scan(p)
      [] p.pc = "back_scan" -> hbd_back_scan(p)
      [] p.pc = "report" -> hbd_report(p)
      [] OTHER -> {p}

\* the records the whole call can end with
RECURSIVE high_time_backtracking_distance(_)
high_time_backtracking_distance(p) ==
    IF p.pc \in {"done", "crashed"}
    THEN {p}
    ELSE UNION {high_time_backtracking_distance(q) : q \in hbd_step(p)}

\* sum_mam_high_time_nodes(), in nanoseconds
RECURSIVE sum_mam_high_time_nodes(_)
sum_mam_high_time_nodes(nodes) ==
    IF nodes = <<>> THEN 0
    ELSE Head(nodes)[2].num + sum_mam_high_time_nodes(Tail(nodes))

(***************************************************************************)
(* collect_statistics(st): the named values, then mam_loop_output() and    *)
(* high_time_backtracking_distance() on file_stream.                       *)
(***************************************************************************)
CollectStatistics ==
    /\ pc = "idle"
    /\ st' = [mam_high_time_count |-> mam_high_time_count,
              high_time_count_total |-> high_time_count_total,
              max_node |-> currentNode,
              cumulative_mam_high_time |->
                  [num |-> sum_mam_high_time_nodes(mam_high_time_nodes),
                   den |-> NsPerSecond]]
    /\ \E end \in high_time_backtracking_distance(
                    [NoPass EXCEPT !.pc = "entry",
                                   !.os = mam_loop_output(mam_total_loop_itrs,
                                                          mam_case_counters)]) :
           /\ pass' = end
           /\ pc' = IF end.pc = "crashed" THEN "crashed" ELSE "collected"
    /\ UNCHANGED <<now, profVars, timerVars>>

\* collect_statistics() returns to the host, which has taken the statistics
\* and the output
Return ==
    /\ pc = "collected"
    /\ pc' = "idle"
    /\ st' = <<>>
    /\ pass' = NoPass
    /\ UNCHANGED <<now, profVars, timerVars>>

(***************************************************************************)
(* The pass of high_time_backtracking_distance(), step by step.            *)
(***************************************************************************)
HbdEntry ==
    /\ pc = "collecting"
    /\ pass.pc = "entry"
    /\ pass' \in hbd_entry(pass)
    /\ UNCHANGED <<now, profVars, timerVars, pc, st>>

HbdFor ==
    /\ pc = "collecting"
    /\ pass.pc = "for"
    /\ pass' \in hbd_for(pass)
    /\ UNCHANGED <<now, profVars, timerVars, pc, st>>

HbdMamScan ==
    /\ pc = "collecting"
    /\ pass.pc = "mam_scan"
    /\ pass' \in hbd_mam_scan(pass)
    /\ UNCHANGED <<now, profVars, timerVars, pc, st>>

HbdBackScan ==
    /\ pc = "collecting"
    /\ pass.pc = "back_scan"
    /\ pass' \in hbd_back_scan(pass)
    /\ UNCHANGED <<now, profVars, timerVars, pc, st>>

HbdReport ==
    /\ pc = "collecting"
    /\ pass.pc = "report"
    /\ pass' \in hbd_report(pass)
    /\ UNCHANGED <<now, profVars, timerVars, pc, st>>

(***************************************************************************)
(* Spec: a profiling object from its construction to its destruction,      *)
(* under every order of the calls of the host.  The opcode counters are    *)
(* followed in SpecHist.                                                   *)
(***************************************************************************)
Init ==
    /\ now = 0
    /\ TimerFresh
    /\ ProfFresh
    /\ PassFresh

Next ==
    \/ Tick
    \/ ScopeUpdate
    \/ BacktrackingUpdate
    \/ SetupMam
    \/ ExitMam
    \/ MamLoopUpdate(MaxLoopItrs)
    \/ CollectStatistics
    \/ Return
    \/ Destroy

Spec == Init /\ [][Next]_vars

(***************************************************************************)
(* SpecHist: the opcode histogram, from construction, counted up to        *)
(* MaxTotalItrs iterations and MaxOpcodeCount per opcode, and reported.    *)
(***************************************************************************)
InitHist ==
    /\ now = 0
    /\ TimerFresh
    /\ ProfFresh
    /\ PassFresh

NextHist ==
    \/ MamLoopUpdate(MaxTotalItrs)
    \/ SetMamLoopCounters(MaxOpcodeCount)
    \/ CollectStatistics
    \/ Return

SpecHist == InitHist /\ [][NextHist]_vars

(***************************************************************************)
(* SpecCorr: high_time_backtracking_distance() on every state of the three *)
(* sequences that MaxNode + 1 hooks can leave: any set of nodes may have   *)
(* been closed by backtracking, any node but node 0 (which is closed with  *)
(* the stopwatch never started) may be high-time, and any high-time node   *)
(* may be a high-time node of the mam.                                     *)
(***************************************************************************)
RECURSIVE SortedSeq(_)
SortedSeq(S) ==
    IF S = {} THEN <<>>
    ELSE LET m == CHOOSE x \in S : \A y \in S : x <= y
         IN  <<m>> \o SortedSeq(S \ {m})

\* the times recorded for node n: at least the threshold, different per node
NodeSeconds(n) == [num |-> (2 + n) * Quantum, den |-> NsPerSecond]
NodeMamSeconds(n) == [num |-> 2 * Quantum + n, den |-> NsPerSecond]

InitCorr ==
    /\ TimerFresh
    /\ \E TB \in SUBSET (0 .. MaxNode) :
       \E TH \in SUBSET (1 .. MaxNode) :
       \E TM \in SUBSET TH :
           /\ backtracking_nodes = SortedSeq(TB)
           /\ high_time_nodes_total =
                  [i \in 1 .. Cardinality(TH) |->
                      <<SortedSeq(TH)[i], NodeSeconds(SortedSeq(TH)[i])>>]
           /\ mam_high_time_nodes =
                  [i \in 1 .. Cardinality(TM) |->
                      <<SortedSeq(TM)[i], NodeMamSeconds(SortedSeq(TM)[i])>>]
           /\ high_time_count_total = Cardinality(TH)
           /\ mam_high_time_count = Cardinality(TM)
    /\ currentNode = MaxNode + 1
    /\ nHooks = MaxNode + 1
    /\ now = (MaxNode + 1) * (MaxNode + 2) * Quantum
    /\ node_total_stopwatch = start(nanostopwatch, now)
    /\ mam_stopwatch = nanostopwatch
    /\ entered_mam_loop = FALSE
    /\ mam_total_loop_itrs = 0
    /\ mam_case_counters = [i \in Opcodes |-> 0]
    /\ file_stream = "open"
    /\ pc = "collecting"
    /\ st = <<>>
    /\ pass = [NoPass EXCEPT !.pc = "entry"]

NextCorr ==
    \/ HbdEntry
    \/ HbdFor
    \/ HbdMamScan
    \/ HbdBackScan
    \/ HbdReport

SpecCorr == InitCorr /\ [][NextCorr]_vars

(***************************************************************************)
(* Claims about the hooks, checked under Spec.                             *)
(***************************************************************************)
\* C4 (node counter): after N calls of scope_update() and
\* backtracking_update(), in any mix and with any other calls in between,
\* currentNode is N: each hook adds exactly one and nothing else changes it.
C4_NodeCounter == currentNode = nHooks

\* both hooks have been called, the matching loop was entered and counted an
\* iteration, and collect_statistics() has just run
C4_Witness ==
    /\ nHooks >= 3
    /\ currentNode = nHooks
    /\ backtracking_nodes # <<>>
    /\ Len(backtracking_nodes) < nHooks
    /\ mam_total_loop_itrs > 0
    /\ mam_stopwatch.m_elapsed > 0
    /\ pc = "collected"

\* the node numbers of the records the hooks have produced
RecordedNodes ==
    [i \in 1 .. Len(high_time_nodes_total) |-> high_time_nodes_total[i][1]]

\* C5 (record count), as claimed: N hooks have produced exactly N records,
\* with the node numbers 0 .. N-1 in order, and the destruction of the
\* profiling object one more, for node N.
C5_RecordCount ==
    RecordedNodes =
        [i \in 1 .. (nHooks + (IF pc = "destroyed" THEN 1 ELSE 0)) |-> i - 1]

\* the time scope_update() reads from node_total_stopwatch for the node it
\* closes, the hook being called at the clock reading `now`
ClosedNodeSeconds == get_seconds(stop(node_total_stopwatch, now), now, now)

\* C11 (strict threshold), as claimed: a hook counts the node it closes and
\* adds it to high_time_nodes_total if and only if the node's total time is
\* strictly greater than high_time_threshold, so that every recorded total
\* time and every recorded time of the mam is strictly greater than the
\* threshold; a node at exactly the threshold is not recorded.
C11_StrictThreshold ==
    /\ [][ nHooks' # nHooks =>
              /\ (Len(high_time_nodes_total') = Len(high_time_nodes_total) + 1)
                    <=> RatGT(ClosedNodeSeconds, high_time_threshold)
              /\ (high_time_count_total' = high_time_count_total + 1)
                    <=> RatGT(ClosedNodeSeconds, high_time_threshold) ]_vars
    /\ [](\A i \in DOMAIN high_time_nodes_total :
              RatGT(high_time_nodes_total[i][2], high_time_threshold))
    /\ [](\A i \in DOMAIN mam_high_time_nodes :
              RatGT(mam_high_time_nodes[i][2], high_time_threshold))

\* C12 (backtracking sequence order): backtracking_nodes changes only by a
\* hook appending the value currentNode has before the hook increments it;
\* the sequence is strictly increasing and every element is smaller than
\* currentNode.
C12_BacktrackingOrder ==
    /\ [][ backtracking_nodes' # backtracking_nodes =>
              /\ backtracking_nodes' = Append(backtracking_nodes, currentNode)
              /\ currentNode' = currentNode + 1 ]_vars
    /\ [](\A i \in DOMAIN backtracking_nodes :
              /\ backtracking_nodes[i] < currentNode
              /\ i > 1 => backtracking_nodes[i - 1] < backtracking_nodes[i])

\* backtracking happened at node 0 and again at node 2, a scope_update()
\* having closed node 1 in between
C12_Witness ==
    /\ Len(backtracking_nodes) = 2
    /\ backtracking_nodes[1] = 0
    /\ backtracking_nodes[2] = 2
    /\ currentNode = 3

C16_MamAttribution ==
    [][ /\ (mam_high_time_nodes' # mam_high_time_nodes
               \/ mam_high_time_count' # mam_high_time_count) =>
              /\ nHooks' # nHooks
              /\ entered_mam_loop
              /\ mam_high_time_count' = mam_high_time_count + 1
              /\ Len(mam_high_time_nodes') = Len(mam_high_time_nodes) + 1
              /\ mam_high_time_nodes'[Len(mam_high_time_nodes')][1] = currentNode
        /\ (entered_mam_loop' /\ ~entered_mam_loop) =>
              /\ nHooks' = nHooks
              /\ mam_stopwatch' = start(mam_stopwatch, now)
        /\ (nHooks' # nHooks) => ~entered_mam_loop'
      ]_vars

\* node 1 was closed with the mam entered and recorded; node 2 was closed
\* high-time without setup_mam(), mam_stopwatch having been left running,
\* and no time of the mam was recorded for it
C16_Witness ==
    /\ nHooks = 3
    /\ Len(high_time_nodes_total) = 2
    /\ high_time_nodes_total[2][1] = 2
    /\ Len(mam_high_time_nodes) = 1
    /\ mam_high_time_nodes[1][1] = 1
    /\ mam_stopwatch.m_running

\* the node numbers of mam_high_time_nodes
RecordedMamNodes ==
    [i \in 1 .. Len(mam_high_time_nodes) |-> mam_high_time_nodes[i][1]]

\* the sequence of numbers is strictly increasing
StrictlyIncreasing(nodes) ==
    \A i \in DOMAIN nodes : i > 1 => nodes[i - 1] < nodes[i]

\* C20 (high-cost bookkeeping): mam_high_time_nodes and
\* high_time_nodes_total are strictly increasing in the node number, every
\* node of the former is a node of the latter (so it is a subsequence),
\* mam_high_time_count and high_time_count_total are their lengths, and
\* mam_high_time_count <= high_time_count_total <= currentNode.
C20_HighCostBookkeeping ==
    /\ StrictlyIncreasing(RecordedNodes)
    /\ StrictlyIncreasing(RecordedMamNodes)
    /\ \A i \in DOMAIN RecordedMamNodes :
           \E j \in DOMAIN RecordedNodes : RecordedNodes[j] = RecordedMamNodes[i]
    /\ mam_high_time_count = Len(mam_high_time_nodes)
    /\ high_time_count_total = Len(high_time_nodes_total)
    /\ mam_high_time_count <= high_time_count_total
    /\ high_time_count_total <= currentNode

\* two high-time nodes have been recorded, the second of them also as a
\* high-time node of the mam
C20_Witness ==
    /\ Len(high_time_nodes_total) = 2
    /\ Len(mam_high_time_nodes) = 1
    /\ mam_high_time_nodes[1][1] = high_time_nodes_total[2][1]
    /\ mam_high_time_count = 1
    /\ high_time_count_total = 2

\* the least time scope_update() can read from mam_stopwatch when called at
\* the clock reading `now`: the clock not advancing before the read
MamSecondsAtHook == get_seconds(mam_stopwatch, now, now)

\* C23 (time of the mam within the total), as claimed: at every hook, from
\* the first node on, the time read from mam_stopwatch is at most the time
\* read from node_total_stopwatch, and no node is recorded with a time of
\* the mam above its total time.
C23_MamWithinTotal ==
    /\ [][ (nHooks' # nHooks) =>
              RatGE(ClosedNodeSeconds, MamSecondsAtHook) ]_vars
    /\ [](\A i \in DOMAIN mam_high_time_nodes :
           \A j \in DOMAIN high_time_nodes_total :
               mam_high_time_nodes[i][1] = high_time_nodes_total[j][1] =>
                   RatGE(high_time_nodes_total[j][2], mam_high_time_nodes[i][2]))

(***************************************************************************)
(* Claims about the correlation pass, checked under SpecCorr.              *)
(***************************************************************************)
\* the lines of the stream that report a node of high_time_nodes_total
NodeLines == SelectSeq(pass.os, LAMBDA l : l.kind = "node")

\* the least |h - b| over the backtracking nodes b
NearestDistance(h) ==
    CHOOSE d \in {Abs(h - backtracking_nodes[i]) : i \in DOMAIN backtracking_nodes} :
        \A i \in DOMAIN backtracking_nodes : d <= Abs(h - backtracking_nodes[i])

\* C6 (correlation correctness): with at least two backtracking nodes the
\* pass reads no element beyond the vector, reports every high-time node
\* once and in order, and the distance of each has the absolute value of the
\* least |h - b| over all backtracking nodes b.
C6_CorrelationCorrect ==
    Len(backtracking_nodes) >= 2 =>
        /\ pass.pc # "crashed"
        /\ \A i \in DOMAIN NodeLines :
               /\ NodeLines[i].node = high_time_nodes_total[i][1]
               /\ Abs(NodeLines[i].dist) = NearestDistance(NodeLines[i].node)
        /\ pass.pc = "done" => Len(NodeLines) = Len(high_time_nodes_total)

\* a finished pass that reported a node before the first backtracking node,
\* one after the last and one that is itself a backtracking node
C6_Witness ==
    /\ pass.pc = "done"
    /\ Len(backtracking_nodes) >= 2
    /\ \E i, j, k \in DOMAIN NodeLines :
           /\ NodeLines[i].node < backtracking_nodes[1]
           /\ NodeLines[i].dist < 0
           /\ NodeLines[j].node > backtracking_nodes[Len(backtracking_nodes)]
           /\ NodeLines[j].dist > 0
           /\ \E m \in DOMAIN backtracking_nodes :
                  NodeLines[k].node = backtracking_nodes[m]
           /\ NodeLines[k].dist = 0

\* C7 (tie-breaking), as claimed: a node equally far from prev and curr is
\* reported with back_dist.
C7_TieToBack ==
    \A i \in DOMAIN NodeLines :
        Abs(NodeLines[i].back_dist) = Abs(NodeLines[i].front_dist)
            => NodeLines[i].dist = NodeLines[i].back_dist

\* C7, amended: a node equally far from prev and curr is reported with
\* front_dist = h - curr, the distance to the successor; back_dist is
\* reported only when it is strictly nearer.
C7_TieToFront ==
    \A i \in DOMAIN NodeLines :
        /\ Abs(NodeLines[i].back_dist) = Abs(NodeLines[i].front_dist)
               => NodeLines[i].dist = NodeLines[i].front_dist
        /\ Abs(NodeLines[i].back_dist) < Abs(NodeLines[i].front_dist)
               => NodeLines[i].dist = NodeLines[i].back_dist

\* a node midway between two backtracking nodes has been reported
C7_Witness ==
    /\ Len(backtracking_nodes) >= 2
    /\ \E i \in DOMAIN NodeLines :
           /\ NodeLines[i].back_dist > 0
           /\ NodeLines[i].front_dist = 0 - NodeLines[i].back_dist
           /\ NodeLines[i].dist = NodeLines[i].front_dist

\* the lines of the stream that carry a backtrack distance
DistanceLines == SelectSeq(pass.os, LAMBDA l : l.kind \in {"node", "edge"})

\* C8 (singleton backtracking set), as claimed: with one backtracking node
\* the pass reads no successor, and reports every high-time node exactly
\* once with the signed distance h - B[0].
C8_Singleton ==
    Len(backtracking_nodes) = 1 =>
        /\ pass.pc # "crashed"
        /\ pass.readsB \subseteq {0}
        /\ pass.pc = "done" =>
               /\ Len(DistanceLines) = Len(high_time_nodes_total)
               /\ \A i \in DOMAIN DistanceLines :
                      LET h == high_time_nodes_total[i][1]
                          d == h - backtracking_nodes[1]
                      IN  /\ DistanceLines[i].node = h
                          /\ DistanceLines[i].dist \in {d, [hi |-> 0, lo |-> d]}

C17_ForwardCursor ==
    /\ [][ pass.pc # "entry" =>
              /\ pass'.back_index >= pass.back_index
              /\ pass'.h_index >= pass.h_index ]_vars
    /\ []((pass.pc # "entry" /\ backtracking_nodes # <<>>) =>
              /\ pass.back_index <= Len(backtracking_nodes)
              /\ pass.h_index <= Len(high_time_nodes_total)
              /\ \E i, j \in DOMAIN backtracking_nodes :
                     /\ i <= j
                     /\ pass.prev_backtracking_node = backtracking_nodes[i]
                     /\ pass.curr_backtracking_node = backtracking_nodes[j])

\* C21 (index safety), as claimed: for a backtracking_nodes that is not
\* empty, one node included, the pass reads backtracking_nodes only at
\* indices below its size and mam_high_time_nodes only at indices from 0 to
\* its size less one, and so never faults.
C21_IndexSafety ==
    backtracking_nodes # <<>> =>
        /\ pass.pc # "crashed"
        /\ \A i \in pass.readsB : 0 <= i /\ i < Len(backtracking_nodes)
        /\ \A i \in pass.readsM : 0 <= i /\ i < Len(mam_high_time_nodes)

\* the time mam_high_time_nodes stores for node h, as a set: empty if h is
\* not one of its nodes
StoredMamTime(h) ==
    {mam_high_time_nodes[i][2] :
        i \in {j \in DOMAIN mam_high_time_nodes : mam_high_time_nodes[j][1] = h}}

\* C22 (matching-loop annotation): the line written for a node h of
\* high_time_nodes_total carries a time of the mam if and only if h is a
\* node of mam_high_time_nodes, and that time is the one stored for h; a
\* pass that runs to its end writes such a line for every node of
\* high_time_nodes_total.
C22_MamAnnotation ==
    /\ \A i \in DOMAIN NodeLines :
           /\ NodeLines[i].node = high_time_nodes_total[i][1]
           /\ NodeLines[i].has_mam <=> StoredMamTime(NodeLines[i].node) # {}
           /\ NodeLines[i].has_mam =>
                  StoredMamTime(NodeLines[i].node) = {NodeLines[i].mam_time}
    /\ (pass.pc = "done" /\ backtracking_nodes # <<>>) =>
           Len(NodeLines) = Len(high_time_nodes_total)

\* a finished pass over three high-time nodes of which the first and the
\* last are high-time nodes of the mam and the middle one is not
C22_Witness ==
    /\ pass.pc = "done"
    /\ Len(NodeLines) = 3
    /\ Len(mam_high_time_nodes) = 2
    /\ NodeLines[1].has_mam
    /\ ~NodeLines[2].has_mam
    /\ NodeLines[3].has_mam
    /\ NodeLines[1].mam_time # NodeLines[3].mam_time

(***************************************************************************)
(* Claims about the histogram, checked under SpecHist.                     *)
(***************************************************************************)
\* the lines of the stream that report opcode i
OpcodeLines(i) ==
    SelectSeq(pass.os, LAMBDA l : l.kind = "opcode" /\ l.opcode = i)

\* C10 (histogram suppression): collect_statistics() writes the line of an
\* opcode, once and with its count, if and only if mam_total_loop_itrs is
\* positive and count * 100 > mam_total_loop_itrs; at exactly 1%, and with
\* no iteration counted, no line is written.
C10_HistogramSuppression ==
    pc = "collected" =>
        \A i \in Opcodes :
            IF /\ mam_total_loop_itrs > 0
               /\ mam_case_counters[i] * 100 > mam_total_loop_itrs
            THEN /\ Len(OpcodeLines(i)) = 1
                 /\ OpcodeLines(i)[1].count = mam_case_counters[i]
            ELSE OpcodeLines(i) = <<>>

\* a report in which one opcode is at exactly 1% and suppressed and another
\* is at 2% and written
C10_Witness ==
    /\ pc = "collected"
    /\ mam_total_loop_itrs = 100
    /\ \E i, j \in Opcodes :
           /\ mam_case_counters[i] = 1
           /\ OpcodeLines(i) = <<>>
           /\ mam_case_counters[j] = 2
           /\ Len(OpcodeLines(j)) = 1

\* the sum of the counters of the opcodes from i on
RECURSIVE SumFrom(_, _)
SumFrom(counters, i) ==
    IF i = NumOpcodes THEN 0 ELSE counters[i] + SumFrom(counters, i + 1)

\* C13 (histogram total), as claimed: the total the percentages are taken of
\* is the sum of all opcode counters.
C13_TotalIsSum == mam_total_loop_itrs = SumFrom(mam_case_counters, 0)

\* C13, amended: the total is a counter of its own.  mam_loop_update() adds
\* one to it and changes no opcode counter, set_mam_loop_counters() adds one
\* to one opcode counter and leaves the total alone, and the percentage
\* written for an opcode is its count over that total, whatever the sum of
\* the counters is.
C13_IndependentCounters ==
    /\ [][ /\ (mam_total_loop_itrs' # mam_total_loop_itrs) =>
                  /\ mam_total_loop_itrs' = mam_total_loop_itrs + 1
                  /\ mam_case_counters' = mam_case_counters
           /\ (mam_case_counters' # mam_case_counters) =>
                  /\ mam_total_loop_itrs' = mam_total_loop_itrs
                  /\ SumFrom(mam_case_counters', 0) =
                         SumFrom(mam_case_counters, 0) + 1 ]_vars
    /\ [](pc = "collected" =>
             \A i \in Opcodes : \A k \in DOMAIN OpcodeLines(i) :
                 OpcodeLines(i)[k].percent =
                     [num |-> mam_case_counters[i] * 100,
                      den |-> mam_total_loop_itrs])

\* a report after one iteration of the loop and two executions of an opcode:
\* the opcode is written with 200%
C13_Witness ==
    /\ pc = "collected"
    /\ mam_total_loop_itrs = 1
    /\ \E i \in Opcodes :
           /\ mam_case_counters[i] = 2
           /\ Len(OpcodeLines(i)) = 1
           /\ OpcodeLines(i)[1].percent = [num |-> 200, den |-> 1]

=============================================================================
